---- MODULE Spec2Model ----
(***************************************************************************)
(* Graph construction of deepctr.models.fgcnn.FGCNN as a state machine.    *)
(* One behaviour is one call of FGCNN: Init draws the arguments, every     *)
(* action is one construction step of the function body, and the call ends *)
(* in pc = "done" (a model is returned) or pc = "raised" (an exception     *)
(* left the function).  The graph is kept as a set of nodes <<kind, index>>*)
(* and a set of directed edges (dataflow, producer to consumer).           *)
(***************************************************************************)
EXTENDS Integers, Sequences, FiniteSets

\* ---------------------------------------------------------------- bounds
MaxSparse == 3
MaxDense == 1
MaxSeq == 1
MaxStages == 2
MaxMaps == 2
MaxPool == 2

\* ------------------------------------------------------ program constants
\* defaults of FGCNN's signature
embedding_size == 8
DefaultKernelWidth == 6
DefaultFilters == 4
DefaultSeed == 1024

VARIABLES
    feature_dim_dict,     \* [sparse, dense, sequence]: sets of field names
    conv_kernel_width, conv_filters, new_maps,   \* the per-stage lists
    pooling_width, seed,
    ambient,              \* state of the process-global random generator
    pc, exc,
    nodes, edges,         \* the graph built so far
    params,               \* trainable parameters: [node, src]
    inputs_list, deep_emb_list, fg_deep_emb_list, linear_emb_list,
    linear_logit,
    pooling_result,       \* node held by the loop variable pooling_result
    cur_len,              \* its length along the sequence axis
    i,                    \* loop index of the stage loop
    pooled,               \* pooled[k]: sequence length after stage k
    units,                \* units[k]: units of stage k's Dense
    new_feature_list,     \* [node, len] per stage
    concat_args,          \* arguments of the two concat_fun calls of 102-103
    combined_len,
    model

vars == <<feature_dim_dict, conv_kernel_width, conv_filters, new_maps,
          pooling_width, seed, ambient, pc, exc, nodes, edges, params,
          inputs_list, deep_emb_list, fg_deep_emb_list, linear_emb_list,
          linear_logit, pooling_result, cur_len, i, pooled, units,
          new_feature_list, concat_args, combined_len, model>>

\* ---------------------------------------------------------------- helpers
N(kind, idx) == <<kind, idx>>
NoNode == N("none", 0)
NoExc == [type |-> "", names |-> {}]
NoModel == [inputs |-> <<>>, outputs |-> <<>>, out_units |-> 0]

\* the exception class raised by the code
ValueError == "ValueError"

RECURSIVE SortedSeq(_)
SortedSeq(S) ==
    IF S = {} THEN <<>>
    ELSE LET m == CHOOSE x \in S : \A y \in S : x <= y
         IN <<m>> \o SortedSeq(S \ {m})

SeqsUpTo(S, n) == UNION {[1..k -> S] : k \in 0..n}

Range(s) == {s[k] : k \in 1..Len(s)}

RECURSIVE ReachFrom(_, _)
ReachFrom(S, E) ==
    LET T == S \cup {e[2] : e \in {d \in E : d[1] \in S}}
    IN IF T = S THEN S ELSE ReachFrom(T, E)

\* a dataflow path of length >= 0 from a to b in the graph built so far
Path(a, b) == b \in ReachFrom({a}, edges)

Succ(a) == {e[2] : e \in {d \in edges : d[1] = a}}

Chain(s) == {<<s[k], s[k + 1]>> : k \in 1..(Len(s) - 1)}

RECURSIVE SumLen(_)
SumLen(s) == IF s = <<>> THEN 0 ELSE s[1].len + SumLen(Tail(s))

\* ----------------------------------------------------- feature specification
AllFields == feature_dim_dict.sparse \cup feature_dim_dict.dense
                 \cup feature_dim_dict.sequence

EmbeddedFields == feature_dim_dict.sparse \cup feature_dim_dict.sequence

\* check_feature_config_dict: field names are unique across the categories
FeatureConfigOK ==
    /\ feature_dim_dict.sparse \cap feature_dim_dict.dense = {}
    /\ feature_dim_dict.sparse \cap feature_dim_dict.sequence = {}
    /\ feature_dim_dict.dense \cap feature_dim_dict.sequence = {}

FeatureDicts ==
    {[sparse |-> 1..nS,
      sequence |-> (nS + 1)..(nS + nQ),
      dense |-> IF dup THEN (nS + nQ)..(nS + nQ + nD - 1)
                ELSE (nS + nQ + 1)..(nS + nQ + nD)] :
        nS \in 1..MaxSparse, nQ \in 0..MaxSeq, nD \in 0..MaxDense,
        dup \in BOOLEAN}

Init ==
    /\ feature_dim_dict \in FeatureDicts
    /\ conv_kernel_width \in SeqsUpTo({DefaultKernelWidth}, MaxStages)
    /\ conv_filters \in SeqsUpTo({DefaultFilters}, MaxStages)
    /\ new_maps \in SeqsUpTo(1..MaxMaps, MaxStages)
    /\ pooling_width \in 1..MaxPool
    /\ seed \in {DefaultSeed, DefaultSeed + 1}
    /\ ambient \in {0, 1}
    /\ pc = "start"
    /\ exc = NoExc
    /\ nodes = {}
    /\ edges = {}
    /\ params = {}
    /\ inputs_list = <<>>
    /\ deep_emb_list = <<>>
    /\ fg_deep_emb_list = <<>>
    /\ linear_emb_list = <<>>
    /\ linear_logit = NoNode
    /\ pooling_result = NoNode
    /\ cur_len = 0
    /\ i = 0
    /\ pooled = <<>>
    /\ units = <<>>
    /\ new_feature_list = <<>>
    /\ concat_args = [new_features |-> <<>>, combined_input |-> <<>>]
    /\ combined_len = 0
    /\ model = NoModel

Inputs == <<feature_dim_dict, conv_kernel_width, conv_filters, new_maps,
            pooling_width, seed, ambient>>

Raise(names) ==
    /\ pc' = "raised"
    /\ exc' = [type |-> ValueError, names |-> names]

\* ---------------------------------------------------------------- line 74
CheckFeatureConfig ==
    /\ pc = "start"
    /\ IF FeatureConfigOK
       THEN pc' = "check_len" /\ UNCHANGED exc
       ELSE Raise({"feature_dim_dict"})
    /\ UNCHANGED <<Inputs, nodes, edges, params, inputs_list, deep_emb_list,
                   fg_deep_emb_list, linear_emb_list, linear_logit,
                   pooling_result, cur_len, i, pooled, units,
                   new_feature_list, concat_args, combined_len, model>>

\* ------------------------------------------------------------ lines 75-76
LengthsEqual_IgnoreMaps(a, b, c) == Len(a) = Len(b)

LengthsEqual_IgnoreWidth(a, b, c) == Len(b) = Len(c)

LengthsEqual(a, b, c) == Len(a) = Len(b) /\ Len(b) = Len(c)

ListNames == {"conv_kernel_width", "conv_filters", "new_maps"}

CheckLengths ==
    /\ pc = "check_len"
    /\ IF ~LengthsEqual(conv_kernel_width, conv_filters, new_maps)
       THEN Raise(ListNames)
       ELSE pc' = "input_dicts" /\ UNCHANGED exc
    /\ UNCHANGED <<Inputs, nodes, edges, params, inputs_list, deep_emb_list,
                   fg_deep_emb_list, linear_emb_list, linear_logit,
                   pooling_result, cur_len, i, pooled, units,
                   new_feature_list, concat_args, combined_len, model>>

\* ------------------------------------------------------------ lines 24-27
\* create_singlefeat_inputdict / create_varlenfeat_inputdict: one symbolic
\* placeholder per field
Placeholder(f) == N("input", f)

CreateInputDicts ==
    /\ pc = "input_dicts"
    /\ nodes' = nodes \cup {Placeholder(f) : f \in AllFields}
    /\ pc' = "raw_emb"
    /\ UNCHANGED <<Inputs, exc, edges, params, inputs_list, deep_emb_list,
                   fg_deep_emb_list, linear_emb_list, linear_logit,
                   pooling_result, cur_len, i, pooled, units,
                   new_feature_list, concat_args, combined_len, model>>

\* ------------------------------------------------------------ lines 28-38
\* get_inputs_embedding(..., prefix): per-field embedding vectors from an
\* embedding table of its own per sparse / sequence field; dense fields
\* pass through without a table.  All lookups read the placeholders of the
\* input dicts they are given.
TableKind(prefix) ==
    CASE prefix = "" -> "raw_table"
      [] prefix = "fg" -> "fg_table"
      [] prefix = "linear" -> "linear_table"

EmbKind(prefix) ==
    CASE prefix = "" -> "raw_emb"
      [] prefix = "fg" -> "fg_emb"
      [] prefix = "linear" -> "linear_emb"

FieldOrder(withDense) ==
    SortedSeq(feature_dim_dict.sparse) \o SortedSeq(feature_dim_dict.sequence)
        \o (IF withDense THEN SortedSeq(feature_dim_dict.dense) ELSE <<>>)

EmbList(prefix, withDense) ==
    [k \in 1..Len(FieldOrder(withDense)) |->
        N(EmbKind(prefix), FieldOrder(withDense)[k])]

EmbNodes(prefix, withDense) ==
    Range(EmbList(prefix, withDense))
        \cup {N(TableKind(prefix), f) : f \in EmbeddedFields}

EmbEdges(prefix, withDense) ==
    {<<N(TableKind(prefix), f), N(EmbKind(prefix), f)>> : f \in EmbeddedFields}
        \cup {<<Placeholder(FieldOrder(withDense)[k]),
                N(EmbKind(prefix), FieldOrder(withDense)[k])>> :
                  k \in 1..Len(FieldOrder(withDense))}

EmbParams(prefix) ==
    {[node |-> N(TableKind(prefix), f), src |-> "seed"] : f \in EmbeddedFields}

\* get_inputs_list over the input dicts
InputsList ==
    [k \in 1..Cardinality(AllFields) |->
        Placeholder((SortedSeq(feature_dim_dict.sparse)
                       \o SortedSeq(feature_dim_dict.dense)
                       \o SortedSeq(feature_dim_dict.sequence))[k])]

\* lines 28-33: the raw call, include_linear = True, prefix ''
GetInputsEmbeddingRaw ==
    /\ pc = "raw_emb"
    /\ deep_emb_list' = EmbList("", TRUE)
    /\ linear_emb_list' = EmbList("linear", FALSE)
    /\ inputs_list' = InputsList
    /\ nodes' = nodes \cup EmbNodes("", TRUE) \cup EmbNodes("linear", FALSE)
    /\ edges' = edges \cup EmbEdges("", TRUE) \cup EmbEdges("linear", FALSE)
    /\ params' = params \cup EmbParams("") \cup EmbParams("linear")
    /\ pc' = "fg_emb"
    /\ UNCHANGED <<Inputs, exc, fg_deep_emb_list, linear_logit,
                   pooling_result, cur_len, i, pooled, units,
                   new_feature_list, concat_args, combined_len, model>>

\* lines 34-38: the fg call, include_linear = False, prefix 'fg'; its
\* inputs_list and linear list are discarded
GetInputsEmbeddingFg ==
    /\ pc = "fg_emb"
    /\ fg_deep_emb_list' = EmbList("fg", TRUE)
    /\ nodes' = nodes \cup EmbNodes("fg", TRUE)
    /\ edges' = edges \cup EmbEdges("fg", TRUE)
    /\ params' = params \cup EmbParams("fg")
    /\ pc' = "linear_logit"
    /\ UNCHANGED <<Inputs, exc, inputs_list, deep_emb_list, linear_emb_list,
                   linear_logit, pooling_result, cur_len, i, pooled, units,
                   new_feature_list, concat_args, combined_len, model>>

\* ------------------------------------------------------------ lines 39-44
LinearLogitSources_NoDense == Range(linear_emb_list)

\* get_linear_logit(linear_emb_list, dense_input_dict, l2_reg_linear)
LinearLogitSources ==
    Range(linear_emb_list) \cup {Placeholder(f) : f \in feature_dim_dict.dense}

GetLinearLogit ==
    /\ pc = "linear_logit"
    /\ linear_logit' = N("linear_logit", 0)
    /\ nodes' = nodes \cup {N("linear_logit", 0)}
    /\ edges' = edges \cup {<<s, N("linear_logit", 0)>> : s \in LinearLogitSources}
    /\ pc' = "concat_inputs"
    /\ UNCHANGED <<Inputs, exc, params, inputs_list, deep_emb_list,
                   fg_deep_emb_list, linear_emb_list, pooling_result,
                   cur_len, i, pooled, units, new_feature_list, concat_args,
                   combined_len, model>>

\* ------------------------------------------------------------ lines 83-88
\* concat_fun(list, axis=1) needs something to concatenate
ConcatOK(list) == Len(list) >= 1

FgConvSource_Raw == deep_emb_list

\* line 84: the list the convolution path is fed from
FgConvSource == fg_deep_emb_list

\* line 85: the list the interaction path is fed from
OriginSource == deep_emb_list

ConcatInputs ==
    /\ pc = "concat_inputs"
    /\ IF ~ConcatOK(FgConvSource) \/ ~ConcatOK(OriginSource)
       THEN /\ Raise({})
            /\ UNCHANGED <<nodes, edges, pooling_result, cur_len, i>>
       ELSE /\ nodes' = nodes \cup {N("fg_input", 0), N("origin_input", 0),
                                    N("expand_dims", 0)}
            /\ edges' = edges
                 \cup {<<e, N("fg_input", 0)>> : e \in Range(FgConvSource)}
                 \cup {<<e, N("origin_input", 0)>> : e \in Range(OriginSource)}
                 \cup {<<N("fg_input", 0), N("expand_dims", 0)>>}
            /\ pooling_result' = N("expand_dims", 0)
            /\ cur_len' = Len(FgConvSource)
            /\ i' = 1
            /\ pc' = "loop"
            /\ UNCHANGED exc
    /\ UNCHANGED <<Inputs, params, inputs_list, deep_emb_list,
                   fg_deep_emb_list, linear_emb_list, linear_logit, pooled,
                   units, new_feature_list, concat_args, combined_len, model>>

\* ----------------------------------------------------------- lines 90-101
PoolLen_Ceil(L, pw) == (L + pw - 1) \div pw

\* MaxPooling2D(pool_size=(pw, 1)): stride = pool size, 'valid' padding
PoolLen(L, pw) == L \div pw

\* the framework rejects a window wider than the remaining sequence
PoolOK(L, pw) == pw >= 1 /\ L >= pw

\* Conv2D(..., strides=(1, 1), padding='same') keeps the sequence length
ConvLen(L, width) == L

\* line 98
DenseUnits(L, new_filters) == L * embedding_size * new_filters

ReshapeLen_NoMaps(L, new_filters) == L

\* line 101
ReshapeLen(L, new_filters) == L * new_filters

Stage ==
    /\ pc = "loop"
    /\ i <= Len(conv_filters)
    /\ LET width == conv_kernel_width[i]
           new_filters == new_maps[i]
           conv == N("conv", i)
           pool == N("pool", i)
           flat == N("flatten", i)
           dense == N("dense", i)
           reshape == N("reshape", i)
           CL == ConvLen(cur_len, width)
           P == PoolLen(CL, pooling_width)
       IN IF ~PoolOK(CL, pooling_width)
          THEN /\ Raise({})
               /\ nodes' = nodes \cup {conv}
               /\ edges' = edges \cup {<<pooling_result, conv>>}
               /\ params' = params \cup {[node |-> conv, src |-> "unseeded"]}
               /\ UNCHANGED <<pooling_result, cur_len, i, pooled, units,
                              new_feature_list>>
          ELSE /\ nodes' = nodes \cup {conv, pool, flat, dense, reshape}
               /\ edges' = edges \cup {<<pooling_result, conv>>}
                             \cup Chain(<<conv, pool, flat, dense, reshape>>)
               /\ params' = params \cup {[node |-> conv, src |-> "unseeded"],
                                         [node |-> dense, src |-> "unseeded"]}
               /\ pooling_result' = pool
               /\ cur_len' = P
               /\ pooled' = Append(pooled, P)
               /\ units' = Append(units, DenseUnits(P, new_filters))
               /\ new_feature_list' =
                    Append(new_feature_list,
                           [node |-> reshape, len |-> ReshapeLen(P, new_filters)])
               /\ i' = i + 1
               /\ UNCHANGED <<pc, exc>>
    /\ UNCHANGED <<Inputs, inputs_list, deep_emb_list, fg_deep_emb_list,
                   linear_emb_list, linear_logit, concat_args, combined_len,
                   model>>

\* ---------------------------------------------------------- lines 102-103
ConcatFeatures ==
    /\ pc = "loop"
    /\ i > Len(conv_filters)
    /\ IF ~ConcatOK(new_feature_list)
       THEN /\ Raise({})
            /\ UNCHANGED <<nodes, edges, concat_args, combined_len>>
       ELSE /\ nodes' = nodes \cup {N("new_features", 0), N("combined_input", 0)}
            /\ concat_args' =
                 [new_features |->
                     [k \in 1..Len(new_feature_list) |-> new_feature_list[k].node],
                  combined_input |-> <<N("origin_input", 0), N("new_features", 0)>>]
            /\ edges' = edges
                 \cup {<<new_feature_list[k].node, N("new_features", 0)>> :
                          k \in 1..Len(new_feature_list)}
                 \cup {<<N("origin_input", 0), N("combined_input", 0)>>,
                       <<N("new_features", 0), N("combined_input", 0)>>}
            /\ combined_len' = Len(OriginSource) + SumLen(new_feature_list)
            /\ pc' = "interaction"
            /\ UNCHANGED exc
    /\ UNCHANGED <<Inputs, params, inputs_list, deep_emb_list,
                   fg_deep_emb_list, linear_emb_list, linear_logit,
                   pooling_result, cur_len, i, pooled, units,
                   new_feature_list, model>>

\* ---------------------------------------------------------- lines 105-109
Interaction ==
    /\ pc = "interaction"
    /\ nodes' = nodes \cup {N("unstack", 0), N("inner_product", 0),
                            N("linear_signal", 0), N("dnn_input", 0)}
    /\ edges' = edges
         \cup Chain(<<N("combined_input", 0), N("unstack", 0),
                      N("inner_product", 0), N("dnn_input", 0)>>)
         \cup Chain(<<N("combined_input", 0), N("linear_signal", 0),
                      N("dnn_input", 0)>>)
    /\ pc' = "head"
    /\ UNCHANGED <<Inputs, exc, params, inputs_list, deep_emb_list,
                   fg_deep_emb_list, linear_emb_list, linear_logit,
                   pooling_result, cur_len, i, pooled, units,
                   new_feature_list, concat_args, combined_len, model>>

\* ---------------------------------------------------------- lines 111-113
\* what the output node is computed from
OutputSources == {N("final_logit", 0)}

PredictionHead ==
    /\ pc = "head"
    /\ nodes' = nodes \cup {N("mlp", 0), N("final_logit", 0), N("output", 0)}
    /\ edges' = edges
         \cup Chain(<<N("dnn_input", 0), N("mlp", 0), N("final_logit", 0)>>)
         \cup {<<s, N("output", 0)>> : s \in OutputSources}
    /\ params' = params \cup {[node |-> N("mlp", 0), src |-> "layer_default"],
                              [node |-> N("final_logit", 0), src |-> "unseeded"]}
    /\ pc' = "model"
    /\ UNCHANGED <<Inputs, exc, inputs_list, deep_emb_list, fg_deep_emb_list,
                   linear_emb_list, linear_logit, pooling_result, cur_len, i,
                   pooled, units, new_feature_list, concat_args, combined_len,
                   model>>

\* ---------------------------------------------------------- lines 115-116
ModelInputs_Both == inputs_list \o inputs_list

ModelInputs == inputs_list

\* Dense(1, use_bias=False): one scalar per example
OutputUnits == 1

BuildModel ==
    /\ pc = "model"
    /\ model' = [inputs |-> ModelInputs, outputs |-> <<N("output", 0)>>,
                 out_units |-> OutputUnits]
    /\ pc' = "done"
    /\ UNCHANGED <<Inputs, exc, nodes, edges, params, inputs_list,
                   deep_emb_list, fg_deep_emb_list, linear_emb_list,
                   linear_logit, pooling_result, cur_len, i, pooled, units,
                   new_feature_list, concat_args, combined_len>>

\* initial value of a parameter: an initializer given the seed argument is
\* a function of it, one without a seed draws from the process-global
\* generator, and MLP falls back on its own default
InitValue(p) ==
    CASE p.src = "seed" -> seed
      [] p.src = "unseeded" -> ambient
      [] p.src = "layer_default" -> -1

Next ==
    \/ CheckFeatureConfig
    \/ CheckLengths
    \/ CreateInputDicts
    \/ GetInputsEmbeddingRaw
    \/ GetInputsEmbeddingFg
    \/ GetLinearLogit
    \/ ConcatInputs
    \/ Stage
    \/ ConcatFeatures
    \/ Interaction
    \/ PredictionHead
    \/ BuildModel

Spec == Init /\ [][Next]_vars

\* ================================================================ claims
Mismatch ==
    ~(Len(conv_kernel_width) = Len(conv_filters)
        /\ Len(conv_filters) = Len(new_maps))

Terminal == pc \in {"done", "raised"}

GraphEmpty ==
    /\ nodes = {} /\ edges = {} /\ params = {}
    /\ inputs_list = <<>> /\ deep_emb_list = <<>> /\ fg_deep_emb_list = <<>>
    /\ linear_emb_list = <<>> /\ linear_logit = NoNode
    /\ new_feature_list = <<>> /\ model = NoModel

KindNodes(kind) == {n \in nodes : n[1] = kind}

Pred(b) == {e[1] : e \in {d \in edges : d[2] = b}}

\* C1 as stated: every call with per-stage lists of unequal length returns
\* no model and ends in a ValueError (the code's validation error) whose
\* message names conv_kernel_width, conv_filters and new_maps.
C1_EveryMismatchNamesLists ==
    Mismatch =>
        /\ pc # "done" /\ model = NoModel
        /\ Terminal =>
             /\ exc.type = "ValueError"
             /\ exc.names = {"conv_kernel_width", "conv_filters", "new_maps"}

\* C1 amended: every call with unequal list lengths returns no model and
\* ends in a ValueError; when the feature specification passes its own
\* validation, that error's message names the three lists.
C1_MismatchRaises ==
    Mismatch =>
        /\ pc # "done" /\ model = NoModel
        /\ Terminal => exc.type = "ValueError"
        /\ (Terminal /\ FeatureConfigOK) =>
             exc.names = {"conv_kernel_width", "conv_filters", "new_maps"}

\* the documented mismatch, list lengths 2, 1, 2, has been rejected
C1_Witness ==
    /\ pc = "raised" /\ FeatureConfigOK
    /\ Len(conv_kernel_width) = 2 /\ Len(conv_filters) = 1 /\ Len(new_maps) = 2
    /\ exc.names = {"conv_kernel_width", "conv_filters", "new_maps"}

\* C2: the equal-length check precedes all graph building: nothing has been
\* built before it has passed, and a call with mismatched lists never builds
\* a placeholder, table, layer or parameter.
C2_LengthCheckBeforeGraph ==
    /\ pc \in {"start", "check_len"} => GraphEmpty
    /\ Mismatch => GraphEmpty
    /\ (pc = "raised" /\ exc.names = {"conv_kernel_width", "conv_filters", "new_maps"})
          => GraphEmpty

\* the length error has been raised on a valid feature specification
C2_Witness ==
    /\ pc = "raised" /\ Mismatch /\ FeatureConfigOK
    /\ exc.names = {"conv_kernel_width", "conv_filters", "new_maps"}
    /\ GraphEmpty

\* C3 as stated: with a valid feature specification and equal-length lists
\* (the empty lists included) construction returns a model with one output
\* unit, and concat_fun is never reached with no generated features.
C3_ValidCallReturnsModel ==
    (FeatureConfigOK /\ ~Mismatch) =>
        /\ Terminal =>
             /\ pc = "done"
             /\ model.outputs = <<N("output", 0)>> /\ model.out_units = 1
        /\ ~(pc = "loop" /\ i > Len(conv_filters) /\ new_feature_list = <<>>)
        /\ \A k \in 1..Len(pooled) : pooled[k] >= 1

\* C4: the returned model declares exactly one input per distinct field,
\* the placeholders of the raw call's inputs_list; the fg lookups read the
\* same placeholders and add none.
C4_OneInputPerField ==
    /\ pc = "done" =>
         /\ model.inputs = inputs_list
         /\ Len(model.inputs) = Cardinality(AllFields)
         /\ \A f \in AllFields :
               Cardinality({k \in 1..Len(model.inputs) :
                               model.inputs[k] = N("input", f)}) = 1
         /\ Range(model.inputs) = KindNodes("input")
    /\ \A k \in 1..Len(fg_deep_emb_list) :
         Pred(fg_deep_emb_list[k]) \cap KindNodes("input")
            = {N("input", fg_deep_emb_list[k][2])}
    /\ Cardinality(KindNodes("input")) <= Cardinality(AllFields)

\* a model over sparse, dense and sequence fields has been returned
C4_Witness ==
    /\ pc = "done"
    /\ feature_dim_dict.dense # {} /\ feature_dim_dict.sequence # {}
    /\ Len(model.inputs) >= 3

\* C5 as stated: the linear logit reaches the model output.
C5_LinearLogitInOutput ==
    pc = "done" => (linear_logit # NoNode /\ Path(linear_logit, N("output", 0)))

\* C6 as stated: every initial parameter value is determined by the seed
\* argument, each initializer being given that seed.
C6_AllInitFromSeed ==
    pc = "done" => \A p \in params : p.src = "seed" /\ InitValue(p) = seed

\* C7: raw and fg embeddings are separate tables and separate routes: a
\* table feeds one lookup of its own pathway, fg vectors feed only fg_input
\* and through it only the first convolution, raw vectors feed only
\* origin_input and through it only the combined input, never a convolution.
C7_RawFgDisjoint ==
    /\ Range(deep_emb_list) \cap Range(fg_deep_emb_list) = {}
    /\ \A t \in KindNodes("raw_table") : Succ(t) = {N("raw_emb", t[2])}
    /\ \A t \in KindNodes("fg_table") : Succ(t) = {N("fg_emb", t[2])}
    /\ \A e \in Range(fg_deep_emb_list) :
         /\ Succ(e) \subseteq {N("fg_input", 0)}
         /\ Pred(e) \cap (KindNodes("raw_table") \cup KindNodes("linear_table")) = {}
    /\ Succ(N("fg_input", 0)) \subseteq {N("expand_dims", 0)}
    /\ Succ(N("expand_dims", 0)) \subseteq {N("conv", 1)}
    /\ \A e \in Range(deep_emb_list) :
         /\ Succ(e) \subseteq {N("origin_input", 0)}
         /\ Pred(e) \cap (KindNodes("fg_table") \cup KindNodes("linear_table")) = {}
         /\ \A c \in KindNodes("conv") : ~Path(e, c)
    /\ Succ(N("origin_input", 0)) \subseteq {N("combined_input", 0)}
    /\ pc = "done" =>
         /\ \A e \in Range(fg_deep_emb_list) : Path(e, N("conv", 1))
         /\ \A e \in Range(deep_emb_list) : Path(e, N("combined_input", 0))

\* a model with two stages has been returned
C7_Witness ==
    /\ pc = "done" /\ Len(pooled) = 2
    /\ Len(deep_emb_list) >= 2 /\ Len(fg_deep_emb_list) >= 2

RECURSIVE GeneratedCount(_)
GeneratedCount(k) ==
    IF k = 0 THEN 0 ELSE pooled[k] * new_maps[k] + GeneratedCount(k - 1)

\* C10: stage k emits pooled[k] * new_maps[k] vectors of embedding_size,
\* exactly the elements of its Dense output; the stages' vectors are
\* concatenated in stage order after the raw embeddings, so the combined
\* sequence has (field count) + sum of pooled[k] * new_maps[k] positions.
C10_GeneratedFeatureCount ==
    /\ Len(new_feature_list) = Len(pooled) /\ Len(units) = Len(pooled)
    /\ \A k \in 1..Len(new_feature_list) :
         /\ new_feature_list[k].node = N("reshape", k)
         /\ new_feature_list[k].len = pooled[k] * new_maps[k]
         /\ units[k] = pooled[k] * embedding_size * new_maps[k]
         /\ units[k] = new_feature_list[k].len * embedding_size
    /\ pc \in {"interaction", "head", "model", "done"} =>
         /\ concat_args.new_features
              = [k \in 1..Len(conv_filters) |-> N("reshape", k)]
         /\ concat_args.combined_input
              = <<N("origin_input", 0), N("new_features", 0)>>
         /\ Pred(N("origin_input", 0)) = Range(deep_emb_list)
         /\ Len(deep_emb_list) = Cardinality(AllFields)
         /\ combined_len
              = Len(deep_emb_list) + GeneratedCount(Len(conv_filters))

\* a two-stage model with more than one new map per position
C10_Witness ==
    /\ pc = "done" /\ Len(new_feature_list) = 2
    /\ new_maps[1] = 2 /\ new_feature_list[1].len > pooled[1]
    /\ combined_len > Len(deep_emb_list) + 2
====
